---- MODULE Spec2Model ----
(***************************************************************************)
(* Wallet ledger and payment routes of the Vaaradhi print-portal backend.  *)
(* The repository holds two versions of the server: src/server.js (one     *)
(* Wallet document per wallet event, balance = sum over the documents) and *)
(* src/unnamed/part_000 (find-or-create one Wallet document, then save).   *)
(* The variable `file` says which of the two is running.                   *)
(*                                                                         *)
(* Environment: the MongoDB store answers every query (the handlers' catch *)
(* blocks are reached only by a cast error or by a gateway failure).       *)
(***************************************************************************)
EXTENDS Integers, Sequences, FiniteSets, TLC

\* ---- bounds of the model ------------------------------------------------
MaxAdds == 2      \* wallet add requests that pass validation
MaxOrders == 2    \* order creations forwarded to the gateway

Slots == 1..MaxAdds
\* a JavaScript string is the sequence of its characters
U1 == <<"u", "1">>
U2 == <<"u", "2">>
Users == {U1, U2}

\* ---- JavaScript values --------------------------------------------------
Undefined == [t |-> "undefined"]
NaN == [t |-> "NaN"]
Null == [t |-> "null"]
Num(n) == [t |-> "number", v |-> n]
Str(s) == [t |-> "string", v |-> s]

\* ToBoolean of a value (the operand of `!`)
Truthy(x) ==
  CASE x.t = "number" -> x.v # 0
    [] x.t = "string" -> x.v # << >>
    [] OTHER -> FALSE

\* typeof
TypeOf(x) ==
  CASE x.t = "number" -> "number"
    [] x.t = "NaN" -> "number"
    [] x.t = "string" -> "string"
    [] x.t = "null" -> "object"
    [] OTHER -> "undefined"

\* a + b and a += b on numbers: undefined and NaN operands give NaN
JsAdd(a, b) ==
  IF a.t = "number" /\ b.t = "number" THEN Num(a.v + b.v) ELSE NaN

\* a || 0
OrZero(a) == IF Truthy(a) THEN a ELSE Num(0)

\* a destructuring default: `= d` applies to a missing (undefined) field only
Default(a, d) == IF a = Undefined THEN d ELSE a

\* res.json(): JSON.stringify writes NaN as null (and leaves out undefined)
Json(a) == IF a = NaN THEN Null ELSE a

\* ---- the Wallet model ---------------------------------------------------
\* Paths of walletSchema.  (`date`, default Date.now, is left out: server.js
\* only sorts by it before summing, the other file never reads it.)
WalletPaths == {"userId", "points", "rupees"}

\* Cast of a value to a Number path: a number is kept, a missing value takes
\* the schema default 0, anything else is a CastError that fails save().
Castable(x) == x.t \in {"number", "undefined"}

CastNumber(x) == IF x.t = "number" THEN x.v ELSE 0

\* The schema is strict (mongoose default): the fields of obj that are not
\* paths of the schema are dropped.
Strict(obj) == [p \in (DOMAIN obj) \cap WalletPaths |-> obj[p]]

Field(obj, p) == IF p \in DOMAIN obj THEN obj[p] ELSE Undefined

\* new Wallet(obj)
NewWallet(obj) ==
  LET o == Strict(obj) IN
  [ isNew |-> TRUE,
    idx |-> 0,
    userId |-> Field(o, "userId").v,
    points |-> CastNumber(Field(o, "points")),
    rupees |-> CastNumber(Field(o, "rupees")),
    errors |-> {p \in {"points", "rupees"} : ~Castable(Field(o, p))},
    own |-> << >> ]

\* The document findOne builds from the k-th stored document.
Hydrate(ws, k) ==
  [ isNew |-> FALSE,
    idx |-> k,
    userId |-> ws[k].userId,
    points |-> ws[k].points,
    rupees |-> ws[k].rupees,
    errors |-> {},
    own |-> << >> ]

\* wallet.name: a schema path reads the stored value, any other name reads
\* a property set on the object itself, undefined when there is none.
Get(w, name) ==
  CASE name = "userId" -> Str(w.userId)
    [] name = "points" -> Num(w.points)
    [] name = "rupees" -> Num(w.rupees)
    [] name \notin WalletPaths ->
                IF \E k \in 1..Len(w.own) : w.own[k].name = name
                THEN (CHOOSE e \in {w.own[k] : k \in 1..Len(w.own)} :
                         e.name = name).val
                ELSE Undefined

\* wallet.name = v for a name that is not a schema path: a plain property of
\* the object, which mongoose neither tracks nor saves.
SetOwn(w, name, v) ==
  [w EXCEPT !.own =
     SelectSeq(w.own, LAMBDA e : e.name # name) \o <<[name |-> name, val |-> v]>>]

\* Wallet.findOne({userId}): index of the first stored document of the user,
\* 0 when there is none.
FindOne(ws, u) ==
  IF \E k \in 1..Len(ws) : ws[k].userId = u
  THEN CHOOSE k \in 1..Len(ws) :
         /\ ws[k].userId = u
         /\ \A j \in 1..(k - 1) : ws[j].userId # u
  ELSE 0

\* Wallet.find({userId}): the stored documents of the user.
Find(ws, u) == SelectSeq(ws, LAMBDA d : d.userId = u)

\* wallet.save(): a new document is inserted with its schema paths; an
\* existing document is written only in its modified schema paths, and the
\* handlers modify none.
Save(ws, w) ==
  IF w.isNew
  THEN Append(ws, [userId |-> w.userId, points |-> w.points, rupees |-> w.rupees])
  ELSE ws

RECURSIVE SumField(_, _)
SumField(s, f) == IF s = << >> THEN 0 ELSE s[1][f] + SumField(Tail(s), f)

\* ---- strings -------------------------------------------------------------
Digit == <<"0", "1", "2", "3", "4", "5", "6", "7", "8", "9">>

\* String(n) of a number n >= 0: its decimal digits
RECURSIVE DecimalString(_)
DecimalString(n) ==
  IF n < 10 THEN <<Digit[n + 1]>>
  ELSE DecimalString(n \div 10) \o <<Digit[(n % 10) + 1]>>

\* the string a value becomes when it is an operand of a string `+`
JsString(x) ==
  CASE x.t = "string" -> x.v
    [] x.t = "number" -> DecimalString(x.v)
    [] x.t = "null" -> <<"n", "u", "l", "l">>
    [] x.t = "NaN" -> <<"N", "a", "N">>
    [] OTHER -> <<"u", "n", "d", "e", "f", "i", "n", "e", "d">>

\* ---- state --------------------------------------------------------------
VARIABLES
  file,       \* which server file is running
  wallets,    \* the Wallet collection, in insertion order
  adds,       \* the wallet add requests that passed validation, by slot
  out,        \* the response written by the latest handler turn
  now,        \* Date.now()
  receipts    \* the receipts passed to razorpay.orders.create, in order

vars == <<file, wallets, adds, out, now, receipts>>

Idle == [pc |-> "idle"]
None == [route |-> "none"]

Init ==
  /\ file \in {"server.js", "part_000"}
  /\ wallets = << >>
  /\ adds = [i \in Slots |-> Idle]
  /\ out = None
  /\ now = 0
  /\ receipts = << >>

\* res.json() is synchronous: the response of one turn of the event loop is
\* on the wire before the next turn starts.
Ready == out = None

Flush ==
  /\ out # None
  /\ out' = None
  /\ UNCHANGED <<file, wallets, adds, now, receipts>>

\* a request that passes validation takes the lowest free slot
FreeSlot(i) ==
  /\ adds[i].pc = "idle"
  /\ \A j \in Slots : j < i => adds[j].pc # "idle"

\* ---- POST /api/wallet/add, src/unnamed/part_000 -------------------------
AddBodies ==
  { [userId |-> Str(U1), points |-> Num(1), rupees |-> Undefined, note |-> Undefined],
    [userId |-> Str(U1), points |-> Num(-1), rupees |-> Num(2), note |-> Undefined],
    [userId |-> Str(U2), points |-> Num(1), rupees |-> Num(2), note |-> Str(<<"n">>)],
    [userId |-> Str(U1), points |-> Num(0), rupees |-> Undefined, note |-> Undefined],
    [userId |-> Undefined, points |-> Num(1), rupees |-> Num(2), note |-> Undefined],
    [userId |-> Str(U1), points |-> Undefined, rupees |-> Num(2), note |-> Undefined],
    [userId |-> Str(U1), points |-> Str(<<"x">>), rupees |-> Num(2), note |-> Undefined] }

Transaction(points, rupees, note) ==
  [ points |-> points, rupees |-> rupees,
    type |-> IF points.v >= 0 THEN "credit" ELSE "debit",
    note |-> note ]

\* lines 185-214: the document the handler holds when it calls save()
WalletToSave(ws, userId, points, rupees, note) ==
  LET k == FindOne(ws, userId.v) IN
  IF k = 0
  THEN NewWallet([ userId |-> userId, totalPoints |-> points,
                   totalRupees |-> rupees,
                   transactions |-> <<Transaction(points, rupees, note)>> ])
  ELSE LET w0 == Hydrate(ws, k)
           tx0 == IF Get(w0, "transactions") = Undefined
                  THEN << >> ELSE Get(w0, "transactions")
           w1 == SetOwn(w0, "transactions", tx0)
           w2 == SetOwn(w1, "totalPoints", JsAdd(Get(w1, "totalPoints"), points))
           w3 == SetOwn(w2, "totalRupees", JsAdd(Get(w2, "totalRupees"), rupees))
       IN SetOwn(w3, "transactions",
                 Append(Get(w3, "transactions"), Transaction(points, rupees, note)))

\* line 178
AddAccepted(body) == Truthy(body.userId) /\ TypeOf(body.points) = "number"

\* lines 176-183: a request that fails validation
WalletAddRejected(body) ==
  /\ file = "part_000"
  /\ Ready
  /\ ~AddAccepted(body)
  /\ out' = [ route |-> "add", body |-> body, status |-> 400, success |-> FALSE,
              message |-> "Missing or invalid fields (userId or points)" ]
  /\ UNCHANGED <<file, wallets, adds, now, receipts>>

\* lines 176-214: validation, the findOne and the code up to the save() call
WalletAdd(i, body) ==
  /\ file = "part_000"
  /\ Ready
  /\ FreeSlot(i)
  /\ AddAccepted(body)
  /\ LET userId == body.userId
         points == body.points
         rupees == Default(body.rupees, Num(0))
         note == Default(body.note, Str(<< >>))
     IN adds' = [adds EXCEPT ![i] =
          [ pc |-> "save", body |-> body, points |-> points, rupees |-> rupees,
            wallet |-> WalletToSave(wallets, userId, points, rupees, note) ]]
  /\ UNCHANGED <<file, wallets, out, now, receipts>>

\* lines 216-228: the save reaches the store, then the response
WalletAddSaved(i) ==
  /\ file = "part_000"
  /\ Ready
  /\ adds[i].pc = "save"
  /\ wallets' = Save(wallets, adds[i].wallet)
  /\ adds' = [adds EXCEPT ![i] =
       [ pc |-> "done", body |-> adds[i].body, points |-> adds[i].points,
         rupees |-> adds[i].rupees, status |-> 200 ]]
  /\ out' =
       [ route |-> "add", body |-> adds[i].body, status |-> 200, success |-> TRUE,
         message |-> IF adds[i].points.v >= 0
                     THEN "Wallet credited successfully"
                     ELSE "Wallet debited successfully",
         balance |-> [ totalPoints |-> Json(Get(adds[i].wallet, "totalPoints")),
                       totalRupees |-> Json(Get(adds[i].wallet, "totalRupees")) ] ]
  /\ UNCHANGED <<file, now, receipts>>

\* ---- POST /api/wallet/add, src/server.js --------------------------------
\* line 179
ServerAddAccepted(body) ==
  Truthy(body.userId) /\ Truthy(body.points) /\ Truthy(body.rupees)

\* lines 177-182: a request that fails validation
ServerWalletAddRejected(body) ==
  /\ file = "server.js"
  /\ Ready
  /\ ~ServerAddAccepted(body)
  /\ out' = [ route |-> "add", body |-> body, status |-> 400, success |-> FALSE,
              message |-> "Missing required fields" ]
  /\ UNCHANGED <<file, wallets, adds, now, receipts>>

\* lines 177-185: validation and the new document, up to the save() call
ServerWalletAdd(i, body) ==
  /\ file = "server.js"
  /\ Ready
  /\ FreeSlot(i)
  /\ ServerAddAccepted(body)
  /\ adds' = [adds EXCEPT ![i] =
       [ pc |-> "save", body |-> body, points |-> body.points,
         rupees |-> body.rupees,
         wallet |-> NewWallet([ userId |-> body.userId, points |-> body.points,
                                rupees |-> body.rupees ]) ]]
  /\ UNCHANGED <<file, wallets, out, now, receipts>>

\* lines 185-190: save() rejects a document that failed its cast, otherwise
\* inserts it; then the response
ServerWalletAddSaved(i) ==
  /\ file = "server.js"
  /\ Ready
  /\ adds[i].pc = "save"
  /\ IF adds[i].wallet.errors # {}
     THEN /\ adds' = [adds EXCEPT ![i] =
               [ pc |-> "done", body |-> adds[i].body, points |-> adds[i].points,
                 rupees |-> adds[i].rupees, status |-> 500 ]]
          /\ out' = [ route |-> "add", body |-> adds[i].body, status |-> 500,
                      success |-> FALSE, error |-> "Wallet validation failed" ]
          /\ UNCHANGED wallets
     ELSE /\ wallets' = Save(wallets, adds[i].wallet)
          /\ adds' = [adds EXCEPT ![i] =
               [ pc |-> "done", body |-> adds[i].body, points |-> adds[i].points,
                 rupees |-> adds[i].rupees, status |-> 200 ]]
          /\ out' = [ route |-> "add", body |-> adds[i].body, status |-> 200,
                      success |-> TRUE, message |-> "Wallet updated successfully",
                      wallet |-> [ userId |-> Get(adds[i].wallet, "userId"),
                                   points |-> Get(adds[i].wallet, "points"),
                                   rupees |-> Get(adds[i].wallet, "rupees") ] ]
  /\ UNCHANGED <<file, now, receipts>>

\* ---- GET /api/wallet/balance/:userId -----------------------------------
\* src/server.js lines 196-201
ServerBalanceResponse(ws, u) ==
  LET walletData == Find(ws, u) IN
  [ route |-> "balance", userId |-> u, status |-> 200, success |-> TRUE,
    totalPoints |-> Json(Num(SumField(walletData, "points"))),
    totalRupees |-> Json(Num(SumField(walletData, "rupees"))) ]

\* a balance handler that treats a missing wallet as an error
BalanceResponseNotFound(ws, u) ==
  LET k == FindOne(ws, u) IN
  IF k = 0
  THEN [ route |-> "balance", userId |-> u, status |-> 404, success |-> FALSE,
         message |-> "Wallet not found" ]
  ELSE [ route |-> "balance", userId |-> u, status |-> 200, success |-> TRUE,
         totalPoints |-> Json(OrZero(Get(Hydrate(ws, k), "totalPoints"))),
         totalRupees |-> Json(OrZero(Get(Hydrate(ws, k), "totalRupees"))) ]

\* src/unnamed/part_000 lines 242-253
BalanceResponse(ws, u) ==
  LET k == FindOne(ws, u) IN
  IF k = 0
  THEN [ route |-> "balance", userId |-> u, status |-> 200, success |-> TRUE,
         totalPoints |-> Num(0), totalRupees |-> Num(0) ]
  ELSE [ route |-> "balance", userId |-> u, status |-> 200, success |-> TRUE,
         totalPoints |-> Json(OrZero(Get(Hydrate(ws, k), "totalPoints"))),
         totalRupees |-> Json(OrZero(Get(Hydrate(ws, k), "totalRupees"))) ]

ServerWalletBalance(u) ==
  /\ file = "server.js"
  /\ Ready
  /\ out' = ServerBalanceResponse(wallets, u)
  /\ UNCHANGED <<file, wallets, adds, now, receipts>>

WalletBalance(u) ==
  /\ file = "part_000"
  /\ Ready
  /\ out' = BalanceResponse(wallets, u)
  /\ UNCHANGED <<file, wallets, adds, now, receipts>>

\* ---- POST /api/auth/register (the same in both files) -------------------
\* A registration that passes its checks: the store gives the user a fresh
\* _id u, which no request has named before, and (line 83) the handler
\* saves an empty wallet for it.
FreshId(u) ==
  /\ FindOne(wallets, u) = 0
  /\ \A i \in Slots : adds[i].pc # "idle" => adds[i].body.userId # Str(u)

Register(u) ==
  /\ Ready
  /\ FreshId(u)
  /\ wallets' = Save(wallets, NewWallet([ userId |-> Str(u), points |-> Num(0),
                                          rupees |-> Num(0) ]))
  /\ out' = [ route |-> "register", userId |-> u, status |-> 200, success |-> TRUE,
              message |-> "User registered successfully" ]
  /\ UNCHANGED <<file, adds, now, receipts>>

\* ---- POST /api/payment/order (the same in both files) -------------------
\* the clock moves between requests; one reading per order is enough
Tick ==
  /\ Ready
  /\ now < MaxOrders - 1
  /\ now' = now + 1
  /\ UNCHANGED <<file, wallets, adds, out, receipts>>

\* line 135: "rcpt_" + Date.now()
Receipt(t) == <<"r", "c", "p", "t", "_">> \o JsString(Num(t))

\* lines 132-136
OrderOptions(amount, t) ==
  [ amount |-> Num(amount.v * 100), currency |-> "INR", receipt |-> Receipt(t) ]

OrderBodies == { [amount |-> a] : a \in {Undefined, Num(0), Num(-1), Num(5)} }

\* lines 126-130: no amount, or amount 0
PaymentOrderRejected(body) ==
  /\ Ready
  /\ ~Truthy(body.amount)
  /\ out' = [ route |-> "order", body |-> body, status |-> 400,
              success |-> FALSE, message |-> "Amount is required" ]
  /\ UNCHANGED <<file, wallets, adds, now, receipts>>

\* lines 126-143.  gateway is the outcome of razorpay.orders.create, which
\* the payment gateway decides: "ok" resolves with the order, "error" rejects.
PaymentOrder(body, gateway) ==
  /\ Ready
  /\ Truthy(body.amount)
  /\ Len(receipts) < MaxOrders
  /\ receipts' = Append(receipts, OrderOptions(body.amount, now).receipt)
  /\ out' = IF gateway = "ok"
            THEN [ route |-> "order", body |-> body, status |-> 200,
                   success |-> TRUE, order |-> OrderOptions(body.amount, now) ]
            ELSE [ route |-> "order", body |-> body, status |-> 500,
                   success |-> FALSE, message |-> "gateway error" ]
  /\ UNCHANGED <<file, wallets, adds, now>>

\* ---- POST /api/payment/verify (the same in both files) ------------------
\* process.env.RAZORPAY_KEY_SECRET
KeySecret == <<"s", "3", "c", "r", "e", "t">>

HexDigit == <<"0", "1", "2", "3", "4", "5", "6", "7",
              "8", "9", "a", "b", "c", "d", "e", "f">>

Alphabet ==
  HexDigit \o <<"|", "_", "o", "p", "q", "r", "s", "t", "u", "n", "i">>

CharCode(c) == CHOOSE k \in 1..Len(Alphabet) : Alphabet[k] = c

\* crypto.createHmac("sha256", key).update(msg).digest("hex"): a keyed
\* function of the whole message whose value is a lowercase hex string.
\* The model keeps 8 bits of digest (two hex digits) instead of 256.
RECURSIVE Mix(_, _)
Mix(h, str) ==
  IF str = << >> THEN h
  ELSE Mix((h * 31 + CharCode(str[1])) % 256, Tail(str))

HmacSha256Hex(key, msg) ==
  LET h == Mix(Mix(7, key), msg)
  IN <<HexDigit[(h \div 16) + 1], HexDigit[(h % 16) + 1]>>

\* a signed string that leaves the payment id out
SignedMessageOrderOnly(orderId, paymentId) ==
  JsString(orderId) \o <<"|">>

\* line 154: the signed string
SignedMessage(orderId, paymentId) ==
  JsString(orderId) \o <<"|">> \o JsString(paymentId)

\* lines 152-157: sign !== razorpay_signature is false
SignatureMatches(orderId, paymentId, signature) ==
  Str(HmacSha256Hex(KeySecret, SignedMessage(orderId, paymentId))) = signature

\* the digest with the hex digit at position k replaced by the next one
Tamper(d, k) ==
  [d EXCEPT ![k] = HexDigit[(CharCode(d[k]) % 16) + 1]]

O1 == Str(<<"o", "1">>)
P1 == Str(<<"p", "1">>)
Q1 == Str(<<"q", "1">>)

\* the signature the gateway issues for a payment of an order
Sign(o, p) ==
  HmacSha256Hex(KeySecret, JsString(o) \o <<"|">> \o JsString(p))

VerifyBody(o, p, s) ==
  [razorpay_order_id |-> o, razorpay_payment_id |-> p, razorpay_signature |-> s]

VerifyBodies ==
  { VerifyBody(O1, P1, Str(Sign(O1, P1))),
    VerifyBody(O1, P1, Str(Tamper(Sign(O1, P1), 1))),
    VerifyBody(O1, P1, Str(Tamper(Sign(O1, P1), 2))),
    VerifyBody(O1, P1, Str(Sign(O1, Q1))),
    VerifyBody(O1, P1, Str(<< >>)),
    VerifyBody(O1, P1, Undefined),
    VerifyBody(O1, Q1, Str(Sign(O1, Q1))),
    VerifyBody(O1, Q1, Str(Sign(O1, P1))),
    VerifyBody(Undefined, P1, Str(Sign(Undefined, P1))),
    VerifyBody(Undefined, P1, Str(Sign(O1, P1))) }

\* a verification that credits the payer's wallet when the signature matches
PaymentVerifyCredits(body) ==
  /\ Ready
  /\ IF SignatureMatches(body.razorpay_order_id, body.razorpay_payment_id,
                         body.razorpay_signature)
     THEN /\ out' = [ route |-> "verify", body |-> body, status |-> 200,
                      success |-> TRUE ]
          /\ wallets' = Append(wallets, [userId |-> U1, points |-> 1, rupees |-> 0])
     ELSE /\ out' = [ route |-> "verify", body |-> body, status |-> 400,
                      success |-> FALSE, message |-> "Invalid signature" ]
          /\ UNCHANGED wallets
  /\ UNCHANGED <<file, adds, now, receipts>>

\* lines 149-163
PaymentVerify(body) ==
  /\ Ready
  /\ out' = IF SignatureMatches(body.razorpay_order_id, body.razorpay_payment_id,
                                body.razorpay_signature)
            THEN [ route |-> "verify", body |-> body, status |-> 200,
                   success |-> TRUE ]
            ELSE [ route |-> "verify", body |-> body, status |-> 400,
                   success |-> FALSE, message |-> "Invalid signature" ]
  /\ UNCHANGED <<file, wallets, adds, now, receipts>>

Next ==
  \/ \E body \in AddBodies : WalletAddRejected(body)
  \/ \E i \in Slots, body \in AddBodies : WalletAdd(i, body)
  \/ \E i \in Slots : WalletAddSaved(i)
  \/ \E body \in AddBodies : ServerWalletAddRejected(body)
  \/ \E i \in Slots, body \in AddBodies : ServerWalletAdd(i, body)
  \/ \E i \in Slots : ServerWalletAddSaved(i)
  \/ \E u \in Users : WalletBalance(u)
  \/ \E u \in Users : ServerWalletBalance(u)
  \/ \E u \in Users : Register(u)
  \/ Tick
  \/ \E body \in OrderBodies : PaymentOrderRejected(body)
  \/ \E body \in OrderBodies, gateway \in {"ok", "error"} : PaymentOrder(body, gateway)
  \/ \E body \in VerifyBodies : PaymentVerify(body)
  \/ Flush

Spec == Init /\ [][Next]_vars

\* ---- what the claims speak about ---------------------------------------
\* the accepted add requests that name user u
AddsFor(u) ==
  {i \in Slots : adds[i].pc # "idle" /\ adds[i].body.userId = Str(u)}

DoneOk(i) == adds[i].pc = "done" /\ adds[i].status = 200

RECURSIVE SumOver(_, _)
SumOver(S, f) ==
  IF S = {} THEN 0
  ELSE LET i == CHOOSE j \in S : TRUE
       IN adds[i][f].v + SumOver(S \ {i}, f)

RECURSIVE TxSum(_, _)
TxSum(txs, f) == IF txs = << >> THEN 0 ELSE txs[1][f].v + TxSum(Tail(txs), f)

WalletsOf(u) == {k \in 1..Len(wallets) : wallets[k].userId = u}

\* the response a balance request for u gets in the current state
BalanceNow(u) ==
  IF file = "server.js" THEN ServerBalanceResponse(wallets, u)
  ELSE BalanceResponse(wallets, u)

\* C1: once every credit/debit request for a user has completed with
\* success, a balance request for the user reports as totalPoints the sum
\* of the points of those requests, however their steps interleaved.
C1_NoLostUpdate ==
  (/\ out.route = "balance"
   /\ AddsFor(out.userId) # {}
   /\ \A i \in AddsFor(out.userId) : DoneOk(i))
  => out.totalPoints = Num(SumOver(AddsFor(out.userId), "points"))

\* C2: every stored wallet account carries a transaction list and totals
\* that equal the sums of points and of rupees over that list.
C2_TotalsMatchTransactions ==
  file = "part_000" =>
    \A k \in 1..Len(wallets) :
      LET w == Hydrate(wallets, k) IN
      /\ Get(w, "transactions") # Undefined
      /\ Get(w, "totalPoints") = Num(TxSum(Get(w, "transactions"), "points"))
      /\ Get(w, "totalRupees") = Num(TxSum(Get(w, "transactions"), "rupees"))

\* C3: a step that answers a payment verification, with success or with
\* "Invalid signature", leaves the wallet collection and the pending wallet
\* requests as they were.
C3_VerifyLeavesLedger ==
  [][out'.route = "verify" => (wallets' = wallets /\ adds' = adds)]_vars

C3_Witness ==
  /\ out.route = "verify"
  /\ out.status = 400
  /\ Len(wallets) > 0
  /\ \E i \in Slots : adds[i].pc = "save"

\* C4: a verification answers success exactly when the signature it was
\* given is the HMAC-SHA256 hex digest of orderId "|" paymentId under the
\* secret; every other signature gets status 400, "Invalid signature".
C4_VerifyExactMatch ==
  out.route = "verify" =>
    LET valid == Str(Sign(out.body.razorpay_order_id, out.body.razorpay_payment_id))
    IN /\ out.success <=> (out.body.razorpay_signature = valid)
       /\ out.success => out.status = 200
       /\ ~out.success => (out.status = 400 /\ out.message = "Invalid signature")

C4_Witness ==
  /\ out.route = "verify"
  /\ out.status = 400
  /\ \E k \in {1, 2} :
       out.body.razorpay_signature =
         Str(Tamper(Sign(out.body.razorpay_order_id,
                         out.body.razorpay_payment_id), k))

\* C5: a balance request for a user without a stored wallet answers with
\* success, totalPoints 0 and totalRupees 0, and stores nothing.
C5_BalanceOfUnknownUser ==
  [][(out'.route = "balance" /\ WalletsOf(out'.userId) = {})
       => /\ out'.status = 200
          /\ out'.success
          /\ out'.totalPoints = Num(0)
          /\ out'.totalRupees = Num(0)
          /\ wallets' = wallets]_vars

C5_Witness ==
  /\ out.route = "balance"
  /\ WalletsOf(out.userId) = {}
  /\ Len(wallets) > 0
  /\ out.totalPoints = Num(0)

\* C6: an add request is answered 400 exactly when its userId is absent or
\* its points is not a number (points 0 and a missing rupees are accepted),
\* and a request answered 400 leaves the wallet collection unchanged.
ClaimedValid(body) == body.userId # Undefined /\ body.points.t = "number"

C6_AddValidation ==
  [][out'.route = "add"
       => /\ (out'.status = 400) <=> ~ClaimedValid(out'.body)
          /\ out'.status = 400 => wallets' = wallets]_vars

\* C7: when the only add request for a user is a completed credit of p
\* points and r rupees, a balance request for the user answers p and r, and
\* the balance in the credit's own response is the one a balance request
\* made right after it gets.
SoleCredit(u, i) == AddsFor(u) = {i} /\ DoneOk(i)

C7_CreditThenBalance ==
  file = "part_000" =>
    /\ \A i \in Slots :
         (out.route = "balance" /\ SoleCredit(out.userId, i))
           => (out.totalPoints = adds[i].points /\ out.totalRupees = adds[i].rupees)
    /\ \A i \in Slots, u \in Users :
         (out.route = "add" /\ out.status = 200 /\ SoleCredit(u, i))
           => /\ out.balance.totalPoints = BalanceNow(u).totalPoints
              /\ out.balance.totalRupees = BalanceNow(u).totalRupees

\* C8: no user has more than one stored wallet account.
C8_OneWalletPerUser ==
  file = "part_000" => \A u \in Users : Cardinality(WalletsOf(u)) <= 1

\* C9: an order request with a non-positive amount, and one whose gateway
\* call fails, is answered with an error and with no order.
C9_OrderRejectsNonPositive ==
  [][\A body \in OrderBodies :
       /\ PaymentOrderRejected(body) => (out'.status >= 400 /\ ~out'.success)
       /\ \A gateway \in {"ok", "error"} :
            (/\ PaymentOrder(body, gateway)
             /\ (body.amount.v <= 0 \/ gateway = "error"))
            => (out'.status >= 400 /\ ~out'.success)]_vars

\* C10: the receipts passed to the gateway by distinct order creations are
\* pairwise distinct.
C10_DistinctReceipts ==
  \A i, j \in 1..Len(receipts) : i # j => receipts[i] # receipts[j]
====
